---------------------------- MODULE Spec2Model ----------------------------
(***************************************************************************)
(* Model of Crawl_for_Nature.py: a sequential crawler that fetches one     *)
(* collection page, visits every article card, extracts up to three        *)
(* download links per article and streams each one to disk.                *)
(*                                                                         *)
(* Strings are sequences of one-character strings, so that splitting,      *)
(* sanitizing and suffix tests are computed as the code computes them.     *)
(* Anchor texts are sequences of words (the unit at which the code's       *)
(* substring tests are exercised here).                                    *)
(***************************************************************************)
EXTENDS Integers, Sequences, FiniteSets, TLC

(***************************************************************************)
(* Bounds of the model.                                                    *)
(***************************************************************************)
MaxArticles == 2
MaxRuns == 2

(***************************************************************************)
(* String helpers (Python str methods used by the code).  Each helper      *)
(* binds its sequence argument with a set constructor, {... : v \in {s}},  *)
(* so that TLC evaluates the argument once, also inside ENABLED.           *)
(***************************************************************************)
Min(a, b) == IF a < b THEN a ELSE b

\* the element of a singleton set
The(S) == CHOOSE x \in S : TRUE

\* s[:n]
Prefix(s, n) == The({SubSeq(v, 1, Min(n, Len(v))) : v \in {s}})

\* s[k:] for a 1-based k
From(s, k) == The({SubSeq(v, k, Len(v)) : v \in {s}})

\* positions of character c in s
Positions(s, c) == The({{k \in 1..Len(v) : v[k] = c} : v \in {s}})

SetMax(S) == The({CHOOSE m \in T : \A x \in T : x <= m : T \in {S}})
SetMin(S) == The({CHOOSE m \in T : \A x \in T : m <= x : T \in {S}})

\* s.split(c)[-1]
SplitLast(s, c) ==
  The({IF Positions(v, c) = {} THEN v ELSE From(v, SetMax(Positions(v, c)) + 1)
       : v \in {s}})

\* s.split(c)[0]
SplitFirst(s, c) ==
  The({IF Positions(v, c) = {} THEN v
       ELSE SubSeq(v, 1, SetMin(Positions(v, c)) - 1)
       : v \in {s}})

\* s.endswith(t)
EndsWith(s, t) ==
  \E v \in {s} :
    /\ Len(t) <= Len(v)
    /\ SubSeq(v, Len(v) - Len(t) + 1, Len(v)) = t

\* t in s   (contiguous occurrence)
Contains(s, t) ==
  \E v \in {s} :
    \E k \in 0..(Len(v) - Len(t)) : SubSeq(v, k + 1, k + Len(t)) = t

Whitespace == {" ", "\t", "\n"}

RECURSIVE LStrip(_)
LStrip(s) ==
  The({IF v # <<>> /\ Head(v) \in Whitespace THEN LStrip(Tail(v)) ELSE v
       : v \in {s}})

RECURSIVE RStrip(_)
RStrip(s) ==
  The({IF v # <<>> /\ v[Len(v)] \in Whitespace
       THEN RStrip(SubSeq(v, 1, Len(v) - 1))
       ELSE v
       : v \in {s}})

\* s.strip()
Strip(s) == LStrip(RStrip(s))

(***************************************************************************)
(* sanitize_filename                                                       *)
(***************************************************************************)
IllegalChars == {"<", ">", ":", "\"", "/", "\\", "|", "?", "*"}

MaxNameLen == 180

\* re.sub(r'[<>:"/\\|?*]', '_', name)
ReplaceIllegal(s) ==
  The({[k \in 1..Len(v) |-> IF v[k] \in IllegalChars THEN "_" ELSE v[k]]
       : v \in {s}})

\* re.sub(r'\s+', ' ', name): every maximal run of whitespace becomes one blank
RECURSIVE CollapseWs(_)
CollapseWs(s) ==
  The({IF v = <<>> THEN <<>>
       ELSE IF Head(v) \in Whitespace
            THEN <<" ">> \o CollapseWs(LStrip(v))
            ELSE <<Head(v)>> \o CollapseWs(Tail(v))
       : v \in {s}})

sanitize_filename(name) ==
  Prefix(Strip(CollapseWs(ReplaceIllegal(name))), MaxNameLen)


(***************************************************************************)
(* URLs.  A URL is the sequence of its characters.  Every URL the program  *)
(* resolves against starts with base_site.                                 *)
(***************************************************************************)
base_site ==
  <<"h","t","t","p","s",":","/","/","w","w","w",".",
    "n","a","t","u","r","e",".","c","o","m">>

collection_name == "Nature Collection gxfyskqtkm"

\* path (and query) of a URL under base_site
PathOf(url) == From(url, Len(base_site) + 1)

\* directory part of a path: everything up to and including the last "/"
DirOf(path) ==
  The({IF Positions(v, "/") = {} THEN <<"/">>
       ELSE SubSeq(v, 1, SetMax(Positions(v, "/")))
       : v \in {path}})

\* urllib.parse.urljoin(base, href) for a base under base_site and an href
\* that is either an absolute path ("/...") or a relative reference.
urljoin(base, href) ==
  IF href # <<>> /\ Head(href) = "/"
  THEN base_site \o href
  ELSE base_site \o DirOf(PathOf(base)) \o href

(***************************************************************************)
(* Link extraction (get_all_download_links, the part after the fetch).     *)
(* An anchor is [cls, text, href]: cls says whether it carries the class   *)
(* c-pdf-download__link, href is NoHref when the attribute is missing.     *)
(***************************************************************************)
NoHref == <<"<no href>">>

Kinds == <<"pdf", "supp", "peer">>
KindSet == {"pdf", "supp", "peer"}

DotPdf == <<".", "p", "d", "f">>
TxtDownloadPdf == <<"Download", "PDF">>
TxtSupp == <<"Supplementary", "Information">>
TxtPeer == <<"Peer", "Review", "File">>

\* soup.find_all('a', href=True)
AllATags(anchors) == SelectSeq(anchors, LAMBDA a : a.href # NoHref)

\* the least index of S, 0 when S is empty: the first match of a search
FirstIdx(S) ==
  The({IF v = {} THEN 0 ELSE SetMin(v) : v \in {S}})

IsPdfFallback(a) == Contains(a.text, TxtDownloadPdf) \/ EndsWith(a.href, DotPdf)
IsSupp(a) == Contains(a.text, TxtSupp)
IsPeer(a) == Contains(a.text, TxtPeer)

\* soup.find('a', class_='c-pdf-download__link'): href not required
PdfTagIdx(anchors) == FirstIdx({k \in 1..Len(anchors) : anchors[k].cls})

\* pdf_tag['href'] on a tag without the attribute
RaisesKeyError(anchors) ==
  PdfTagIdx(anchors) # 0 /\ anchors[PdfTagIdx(anchors)].href = NoHref

\* the first anchor of all_a_tags passing each loop's test, 0 when none does
FallbackIdx(tags) == FirstIdx({k \in 1..Len(tags) : IsPdfFallback(tags[k])})
SuppIdx(tags) == FirstIdx({k \in 1..Len(tags) : IsSupp(tags[k])})
PeerIdx(tags) == FirstIdx({k \in 1..Len(tags) : IsPeer(tags[k])})

\* the href chosen for a kind, NoHref when the kind is absent
PdfHref(anchors) ==
  IF PdfTagIdx(anchors) # 0 THEN anchors[PdfTagIdx(anchors)].href
  ELSE IF FallbackIdx(AllATags(anchors)) # 0
       THEN AllATags(anchors)[FallbackIdx(AllATags(anchors))].href
       ELSE NoHref

SuppHref(anchors) ==
  IF SuppIdx(AllATags(anchors)) # 0
  THEN AllATags(anchors)[SuppIdx(AllATags(anchors))].href
  ELSE NoHref

PeerHref(anchors) ==
  IF PeerIdx(AllATags(anchors)) # 0
  THEN AllATags(anchors)[PeerIdx(AllATags(anchors))].href
  ELSE NoHref

KindHref(anchors, kind) ==
  CASE kind = "pdf" -> PdfHref(anchors)
    [] kind = "supp" -> SuppHref(anchors)
    [] kind = "peer" -> PeerHref(anchors)

\* the dict returned when no exception is raised: kind -> absolute URL
ExtractLinks(article_url, anchors) ==
  [k \in {kind \in KindSet : KindHref(anchors, kind) # NoHref} |->
     urljoin(article_url, KindHref(anchors, k))]

NoLinks == [k \in {} |-> <<>>]

(***************************************************************************)
(* File naming (download_file) and folder naming (main).                   *)
(***************************************************************************)
DefaultExt == <<"d","o","w","n","l","o","a","d">>

\* url.split("/")[-1].split("?")[0]
original_filename(url) == SplitFirst(SplitLast(url, "/"), "?")

\* variant: the query string is not cut off before the extension is taken
extension_with_query(url) ==
  The({IF Positions(name, ".") # {} THEN SplitLast(name, ".") ELSE DefaultExt
       : name \in {SplitLast(url, "/")}})

\* original_filename.split('.')[-1] if '.' in original_filename else 'download'
extension(url) ==
  The({IF Positions(name, ".") # {} THEN SplitLast(name, ".") ELSE DefaultExt
       : name \in {original_filename(url)}})

\* variant: the file keeps the name it has in the URL
local_filename_from_url(url, file_prefix, base_filename) ==
  <<file_prefix>> \o original_filename(url)

\* f"{file_prefix}{base_filename}.{extension}"; the prefix is kept as one token
local_filename(url, file_prefix, base_filename) ==
  <<file_prefix>> \o base_filename \o <<".">> \o extension(url)

\* os.path.join(dest_folder, local_filename)
local_path(url, dest_folder, file_prefix, base_filename) ==
  <<dest_folder, local_filename(url, file_prefix, base_filename)>>

\* os.path.join(collection_name, sanitized_title)
article_folder(title) == <<collection_name, title>>

KindPrefix(kind) ==
  CASE kind = "pdf" -> "PDF_"
    [] kind = "supp" -> "Supp_"
    [] kind = "peer" -> "PeerReview_"


(***************************************************************************)
(* The remote site: what the collection page and the article pages hold.   *)
(* The content is fixed for a behaviour (unchanged remote content); only   *)
(* the outcome of each request varies.                                     *)
(***************************************************************************)
Anchor(c, t, h) == [cls |-> c, text |-> t, href |-> h]

Art1 == <<"/","a","/","1">>
Art2 == <<"/","a","/","2">>
Art3 == <<"/","a","/","3">>
Art4 == <<"/","a","/","4">>
Art5 == <<"/","a","/","5">>

\* primary PDF marker and a supplementary link, no peer-review link
Page1 ==
  << Anchor(FALSE, <<"Home">>, <<"/">>),
     Anchor(TRUE, <<"Download", "PDF">>, <<"/","a","/","1",".","p","d","f">>),
     Anchor(FALSE, <<"Supplementary", "Information">>,
            <<"/","m","/","1",".","z","i","p","?","v","=","1",".","2">>) >>

\* fallback only: a "Download PDF" anchor whose relative href carries the
\* file name in the query
Page2 ==
  << Anchor(FALSE, <<"Download", "PDF">>,
            <<"d","?","f","=","2",".","p","d","f">>) >>

\* fallback only: an href ending in ".pdf"; the peer-review text comes with
\* more words around it and its href has no extension; no supplementary link
Page3 ==
  << Anchor(FALSE, <<"Full", "text">>, <<"/","a","/","3",".","p","d","f">>),
     Anchor(FALSE, <<"Open", "Peer", "Review", "File">>,
            <<"/","m","/","r","3">>) >>

\* no link of any kind
Page4 == << Anchor(FALSE, <<"About">>, <<"/","a","b","o","u","t">>) >>

\* the primary marker on an anchor without href
Page5 ==
  << Anchor(TRUE, <<"Download", "PDF">>, NoHref),
     Anchor(FALSE, <<"Supplementary", "Information">>,
            <<"/","m","/","5",".","z","i","p">>) >>

\* the anchors of the article page at a URL
ArticlePage(url) ==
  CASE PathOf(url) = Art1 -> Page1
    [] PathOf(url) = Art2 -> Page2
    [] PathOf(url) = Art3 -> Page3
    [] PathOf(url) = Art4 -> Page4
    [] PathOf(url) = Art5 -> Page5

\* An <article> element of the collection page: its classes, whether it has
\* a c-card__title heading, whether the heading has an <a>, the <a>'s text
\* and href (NoHref when the attribute is missing).
Card(cs, t, a, txt, h) ==
  [classes |-> cs, title |-> t, a |-> a, text |-> txt, href |-> h]

Cards ==
  { Card({"u-full-height", "c-card"}, TRUE, TRUE, <<"a","/","b">>, Art1),
    Card({"u-full-height"}, TRUE, TRUE, <<" ","a",":","b"," ">>, Art2),
    Card({"c-card"}, TRUE, TRUE, <<"c"," "," ","d">>, Art3),
    Card({"c-card"}, TRUE, TRUE, <<"e">>, Art4),
    Card({"u-full-height"}, TRUE, TRUE, <<"f">>, Art5),
    Card({"u-full-height"}, TRUE, TRUE, <<"g">>, NoHref),
    Card({"c-card"}, TRUE, FALSE, <<>>, NoHref) }

CollectionPages == UNION {[1..n -> Cards] : n \in 0..MaxArticles}

\* soup.find_all('article', class_=c)
FindAll(pg, c) == SelectSeq(pg, LAMBDA e : c \in e.classes)

\* the articles main iterates over
Articles(pg) ==
  IF FindAll(pg, "u-full-height") # <<>>
  THEN FindAll(pg, "u-full-height")
  ELSE FindAll(pg, "c-card")

\* title_tag.a.get_text(strip=True)
article_title_raw(e) == Strip(e.text)

TitleOf(e) == sanitize_filename(article_title_raw(e))

article_link(e) == urljoin(base_site, e.href)


(***************************************************************************)
(* State.                                                                  *)
(***************************************************************************)
VARIABLES
  page,       \* the collection page served by the site
  run,        \* number of runs of main started so far
  pc,         \* position in main: "idle", "entry", "pdf", "supp", "peer", "pause"
  i,          \* index of the current article in Articles(page)
  sanitized_title, \* sanitized_title of the current article
  links,      \* download_links of the current article
  fs,         \* files on disk: local_path -> [url, complete]
  dirs,       \* directories created by os.makedirs
  ev,         \* what the last step did (request, download_file call, logging)
  lastReq,    \* the most recent network request: [kind, result]
  slept,      \* time.sleep calls since: [page, file] since the last request,
              \*   [pause] since the last article-page request (0: none)
  prevFin,    \* how the last article whose page was requested ended
  attempted,  \* kinds download_file was called for, current article
  warned,     \* whether the "no download links" warning was logged, current article
  fetched,    \* indices whose article page was requested, this run, in order
  okPdf,      \* indices whose PDF download request succeeded, this run
  curClean,   \* this run: no request failed and every download_file returned True
  everClean,  \* some completed run was clean
  gPc,        \* one GET through the session: "off", "send", "done"
  gTotal,     \* Retry.total left
  gHist,      \* outcome of every request sent for the GET
  gWaits,     \* back-off slept before each retry
  gResult,    \* result of the GET
  gZeroFirst  \* whether the library sleeps 0 before the first retry

mainVars ==
  <<page, run, pc, i, sanitized_title, links, fs, dirs, ev, lastReq, slept, prevFin, attempted,
    warned, fetched, okPdf, curClean, everClean>>
getVars == <<gPc, gTotal, gHist, gWaits, gResult, gZeroFirst>>
vars == <<mainVars, getVars>>

\* time.sleep(random.uniform(lo, hi)): the two ends of each interval stand
\* for the values drawn from it
PageDelay == {2, 4}
\* variant: the download delay starts at 0
FileDelayFromZero == {0, 6}
FileDelay == {3, 6}
ArticlePause == {8, 15}

Event(op, req, ok, dl, ret, fin) ==
  [op |-> op, req |-> req, ok |-> ok, dl |-> dl, ret |-> ret, fin |-> fin]

NoSleep == [page |-> 0, file |-> 0, pause |-> 0]

\* variant: the existence check never finds the file
ExistsNever(path) == FALSE

\* os.path.exists(local_path)
Exists(path) == path \in DOMAIN fs

MainInit(pg) ==
  /\ page = pg
  /\ run = 0
  /\ pc = "idle"
  /\ i = 0
  /\ sanitized_title = <<>>
  /\ links = NoLinks
  /\ fs = [p \in {} |-> <<>>]
  /\ dirs = {}
  /\ ev = Event("Init", "none", TRUE, "none", "none", "none")
  /\ lastReq = [kind |-> "none", result |-> "none"]
  /\ slept = NoSleep
  /\ prevFin = "none"
  /\ attempted = {}
  /\ warned = FALSE
  /\ fetched = <<>>
  /\ okPdf = {}
  /\ curClean = TRUE
  /\ everClean = FALSE

GetOff ==
  /\ gPc = "off"
  /\ gTotal = 0
  /\ gHist = <<>>
  /\ gWaits = <<>>
  /\ gResult = "none"
  /\ gZeroFirst = FALSE

Init == (\E pg \in CollectionPages : MainInit(pg)) /\ GetOff

(***************************************************************************)
(* main: the collection page.                                              *)
(***************************************************************************)
RunStartFrame ==
  /\ run' = run + 1
  /\ sanitized_title' = <<>>
  /\ links' = NoLinks
  /\ prevFin' = "none"
  /\ attempted' = {}
  /\ warned' = FALSE
  /\ fetched' = <<>>
  /\ okPdf' = {}
  /\ lastReq' = [kind |-> "collection", result |-> IF ev'.ok THEN "ok" ELSE "failed"]
  /\ slept' = NoSleep
  /\ UNCHANGED <<page, fs, dirs, getVars>>

\* session.get(collection_url) raises RequestException: log, return
CollectionFetchFails ==
  /\ pc = "idle" /\ run < MaxRuns
  /\ ev' = Event("CollectionFetchFails", "collection", FALSE, "none", "none", "none")
  /\ pc' = "idle"
  /\ i' = 0
  /\ curClean' = FALSE
  /\ UNCHANGED everClean
  /\ RunStartFrame

\* the page holds no article under either marker: warn, return
CollectionEmpty ==
  /\ pc = "idle" /\ run < MaxRuns
  /\ Articles(page) = <<>>
  /\ ev' = Event("CollectionEmpty", "collection", TRUE, "none", "none", "none")
  /\ pc' = "idle"
  /\ i' = 0
  /\ curClean' = TRUE
  /\ everClean' = TRUE
  /\ RunStartFrame

CollectionFetched ==
  /\ pc = "idle" /\ run < MaxRuns
  /\ Articles(page) # <<>>
  /\ ev' = Event("CollectionFetched", "collection", TRUE, "none", "none", "none")
  /\ pc' = "entry"
  /\ i' = 1
  /\ curClean' = TRUE
  /\ UNCHANGED everClean
  /\ RunStartFrame


(***************************************************************************)
(* main: one article (the body of the for loop).                           *)
(***************************************************************************)
InLoop == pc = "entry" /\ i <= Len(Articles(page))
Cur == Articles(page)[i]

\* `continue`, or falling off the end of the loop body
NextArticle == i' = i + 1 /\ pc' = "entry"

\* per-article locals start fresh in every iteration
FreshArticle == links' = NoLinks /\ attempted' = {} /\ warned' = FALSE

\* not title_tag or not title_tag.a: continue
SkipEntry ==
  /\ InLoop
  /\ ~Cur.title \/ ~Cur.a
  /\ ev' = Event("SkipEntry", "none", TRUE, "none", "none", "skipped")
  /\ NextArticle /\ FreshArticle
  /\ UNCHANGED <<page, run, sanitized_title, fs, dirs, lastReq, slept, prevFin, fetched, okPdf,
                 curClean, everClean, getVars>>

\* title_tag.a['href'] on an <a> without href: KeyError, caught by main
TitleKeyError ==
  /\ InLoop
  /\ Cur.title /\ Cur.a /\ Cur.href = NoHref
  /\ ev' = Event("TitleKeyError", "none", TRUE, "none", "none", "exception")
  /\ NextArticle /\ FreshArticle
  /\ UNCHANGED <<page, run, sanitized_title, fs, dirs, lastReq, slept, prevFin, fetched, okPdf,
                 curClean, everClean, getVars>>

HasLink == InLoop /\ Cur.title /\ Cur.a /\ Cur.href # NoHref

\* variant: the failed request ends the loop instead of the article
LinksFetchFailsEndsLoop ==
  /\ HasLink
  /\ ev' = Event("LinksFetchFails", "page", FALSE, "none", "none", "nolinks")
  /\ lastReq' = [kind |-> "page", result |-> "failed"]
  /\ slept' = NoSleep
  /\ fetched' = Append(fetched, i)
  /\ sanitized_title' = TitleOf(Cur)
  /\ links' = NoLinks /\ attempted' = {} /\ warned' = TRUE
  /\ prevFin' = "nolinks"
  /\ curClean' = FALSE
  /\ i' = Len(Articles(page)) + 1 /\ pc' = "entry"
  /\ UNCHANGED <<page, run, fs, dirs, okPdf, everClean, getVars>>

\* get_all_download_links: the request fails; {} is returned, main warns
LinksFetchFails ==
  /\ HasLink
  /\ ev' = Event("LinksFetchFails", "page", FALSE, "none", "none", "nolinks")
  /\ lastReq' = [kind |-> "page", result |-> "failed"]
  /\ slept' = NoSleep
  /\ fetched' = Append(fetched, i)
  /\ sanitized_title' = TitleOf(Cur)
  /\ links' = NoLinks /\ attempted' = {} /\ warned' = TRUE
  /\ prevFin' = "nolinks"
  /\ curClean' = FALSE
  /\ NextArticle
  /\ UNCHANGED <<page, run, fs, dirs, okPdf, everClean, getVars>>

\* get_all_download_links: the page arrives, pdf_tag['href'] raises KeyError,
\* which is no RequestException and reaches main's handler
LinksKeyError ==
  /\ HasLink
  /\ RaisesKeyError(ArticlePage(article_link(Cur)))
  /\ ev' = Event("LinksKeyError", "page", TRUE, "none", "none", "exception")
  /\ lastReq' = [kind |-> "page", result |-> "keyerror"]
  /\ slept' = NoSleep
  /\ fetched' = Append(fetched, i)
  /\ sanitized_title' = TitleOf(Cur)
  /\ FreshArticle
  /\ prevFin' = "exception"
  /\ NextArticle
  /\ UNCHANGED <<page, run, fs, dirs, okPdf, curClean, everClean, getVars>>

\* variant: the warning is tied to any missing kind
WarnsAnyMissing(download_links) == DOMAIN download_links # KindSet

\* whether main logs "no download links" for the returned dict
WarnsNoLinks(download_links) == DOMAIN download_links = {}

\* get_all_download_links returns after its sleep; main warns and continues
\* when the dict is empty, and otherwise goes on to the downloads
LinksReturned ==
  /\ HasLink
  /\ ~RaisesKeyError(ArticlePage(article_link(Cur)))
  /\ \E d \in PageDelay :
       slept' = [page |-> d, file |-> 0, pause |-> 0]
  /\ lastReq' = [kind |-> "page", result |-> "ok"]
  /\ fetched' = Append(fetched, i)
  /\ sanitized_title' = TitleOf(Cur)
  /\ links' = ExtractLinks(article_link(Cur), ArticlePage(article_link(Cur)))
  /\ attempted' = {}
  /\ warned' = WarnsNoLinks(links')
  /\ IF warned'
     THEN /\ ev' = Event("LinksReturned", "page", TRUE, "none", "none", "nolinks")
          /\ prevFin' = "nolinks"
          /\ NextArticle
     ELSE /\ ev' = Event("LinksReturned", "page", TRUE, "none", "none", "none")
          /\ prevFin' = prevFin
          /\ i' = i /\ pc' = "pdf"
  /\ UNCHANGED <<page, run, fs, dirs, okPdf, curClean, everClean, getVars>>


(***************************************************************************)
(* main: the downloads of one article, pdf, then supp, then peer.          *)
(***************************************************************************)
AtKind == pc \in KindSet

NextPc(kind) ==
  CASE kind = "pdf" -> "supp"
    [] kind = "supp" -> "peer"
    [] kind = "peer" -> "pause"

\* the arguments main passes to download_file for the kind at pc
DlUrl == links[pc]
DlFolder == article_folder(sanitized_title)
DlPath == local_path(DlUrl, DlFolder, KindPrefix(pc), sanitized_title)

\* `if kind in download_links` is false: no call
KindAbsent ==
  /\ AtKind
  /\ pc \notin DOMAIN links
  /\ ev' = Event("KindAbsent", "none", TRUE, "none", "none", "none")
  /\ pc' = NextPc(pc)
  /\ UNCHANGED <<page, run, i, sanitized_title, links, fs, dirs, lastReq,
                 slept, prevFin, attempted, warned, fetched, okPdf, curClean,
                 everClean, getVars>>

Called == AtKind /\ pc \in DOMAIN links

\* os.makedirs(dest_folder, exist_ok=True) raises (it stands before the try):
\* the exception leaves download_file and is caught by main, which continues
\* with the next article
MakedirsRaises ==
  /\ Called
  /\ DlFolder \notin dirs
  /\ ev' = Event("MakedirsRaises", "none", TRUE, "raise", "raised", "exception")
  /\ attempted' = attempted \cup {pc}
  /\ prevFin' = "exception"
  /\ curClean' = FALSE
  /\ NextArticle
  /\ UNCHANGED <<page, run, sanitized_title, links, fs, dirs, lastReq, slept,
                 warned, fetched, okPdf, everClean, getVars>>

\* what every returning call of download_file does first and last
Returns ==
  /\ dirs' = dirs \cup {DlFolder}
  /\ attempted' = attempted \cup {pc}
  /\ pc' = NextPc(pc)
  /\ UNCHANGED <<page, run, i, sanitized_title, links, prevFin, warned, fetched,
                 everClean, getVars>>

\* variant: the file is opened for writing before the existence check
DownloadSkippedAfterOpen ==
  /\ Called
  /\ Exists(DlPath)
  /\ ev' = Event("DownloadSkipped", "none", TRUE, "skip", "True", "none")
  /\ fs' = [fs EXCEPT ![DlPath].complete = FALSE]
  /\ Returns
  /\ UNCHANGED <<lastReq, slept, okPdf, curClean>>

\* the file is there already: return True
DownloadSkipped ==
  /\ Called
  /\ Exists(DlPath)
  /\ ev' = Event("DownloadSkipped", "none", TRUE, "skip", "True", "none")
  /\ Returns
  /\ UNCHANGED <<fs, lastReq, slept, okPdf, curClean>>

\* session.get, raise_for_status or open raises: nothing written, return False
DownloadFails ==
  /\ Called
  /\ ~Exists(DlPath)
  /\ ev' = Event("DownloadFails", "file", FALSE, "fail", "False", "none")
  /\ lastReq' = [kind |-> "file", result |-> "failed"]
  /\ slept' = [slept EXCEPT !.page = 0, !.file = 0]
  /\ curClean' = FALSE
  /\ Returns
  /\ UNCHANGED <<fs, okPdf>>

\* the stream or a write breaks after open: a partial file stays, return False
DownloadTruncated ==
  /\ Called
  /\ ~Exists(DlPath)
  /\ ev' = Event("DownloadTruncated", "file", TRUE, "partial", "False", "none")
  /\ fs' = (DlPath :> [url |-> DlUrl, complete |-> FALSE]) @@ fs
  /\ lastReq' = [kind |-> "file", result |-> "truncated"]
  /\ slept' = [slept EXCEPT !.page = 0, !.file = 0]
  /\ curClean' = FALSE
  /\ Returns
  /\ UNCHANGED okPdf

\* the whole body is written, then the sleep: return True
DownloadCompletes ==
  /\ Called
  /\ ~Exists(DlPath)
  /\ ev' = Event("DownloadCompletes", "file", TRUE, "ok", "True", "none")
  /\ fs' = (DlPath :> [url |-> DlUrl, complete |-> TRUE]) @@ fs
  /\ lastReq' = [kind |-> "file", result |-> "ok"]
  /\ \E d \in FileDelay : slept' = [slept EXCEPT !.page = 0, !.file = d]
  /\ okPdf' = IF pc = "pdf" THEN okPdf \cup {i} ELSE okPdf
  /\ Returns
  /\ UNCHANGED curClean

\* variant: the loop body ends without the pause
PauseWithoutSleep ==
  /\ pc = "pause"
  /\ ev' = Event("Pause", "none", TRUE, "none", "none", "downloaded")
  /\ prevFin' = "downloaded"
  /\ NextArticle
  /\ UNCHANGED <<page, run, sanitized_title, links, fs, dirs, lastReq, slept,
                 attempted, warned, fetched, okPdf, curClean, everClean, getVars>>

\* the pause at the end of the loop body
Pause ==
  /\ pc = "pause"
  /\ ev' = Event("Pause", "none", TRUE, "none", "none", "downloaded")
  /\ \E d \in ArticlePause : slept' = [slept EXCEPT !.pause = d]
  /\ prevFin' = "downloaded"
  /\ NextArticle
  /\ UNCHANGED <<page, run, sanitized_title, links, fs, dirs, lastReq, attempted,
                 warned, fetched, okPdf, curClean, everClean, getVars>>

\* the loop is exhausted: main logs completion and returns
LoopEnd ==
  /\ pc = "entry" /\ i > Len(Articles(page))
  /\ ev' = Event("LoopEnd", "none", TRUE, "none", "none", "none")
  /\ pc' = "idle"
  /\ everClean' = (everClean \/ curClean)
  /\ UNCHANGED <<page, run, i, sanitized_title, links, fs, dirs, lastReq,
                 slept, prevFin, attempted, warned, fetched, okPdf, curClean,
                 getVars>>

Next ==
  \/ CollectionFetchFails
  \/ CollectionEmpty
  \/ CollectionFetched
  \/ SkipEntry
  \/ TitleKeyError
  \/ LinksFetchFails
  \/ LinksKeyError
  \/ LinksReturned
  \/ KindAbsent
  \/ MakedirsRaises
  \/ DownloadSkipped
  \/ DownloadFails
  \/ DownloadTruncated
  \/ DownloadCompletes
  \/ Pause
  \/ LoopEnd

Spec == Init /\ [][Next]_vars

\* main is one sequential thread: whenever a step is possible, one is taken
FairSpec == Spec /\ WF_vars(Next)

TypeOK ==
  /\ pc \in {"idle", "entry", "pause"} \cup KindSet
  /\ DOMAIN links \subseteq KindSet
  /\ \A p \in DOMAIN fs : p[1] \in dirs


(***************************************************************************)
(* One GET through the session of create_session_with_retries, request by  *)
(* request.  Spec takes each GET as one step with its result; SpecGet      *)
(* unfolds a single GET under the mounted Retry policy.                    *)
(***************************************************************************)
\* variant: one retry more than configured
RetryTotalOneMore == 3 + 1

RetryTotal == 3
status_forcelist == {429, 500, 502, 503, 504}
backoff_factor == 1

\* what one request can meet: 0 is a connection error, otherwise a status
Outcomes == {0, 200, 404} \cup status_forcelist

\* the sleep before retry number n of the GET: backoff_factor * 2^(n-1);
\* urllib3 releases that sleep 0 before the first retry are covered by
\* gZeroFirst
Backoff(n) ==
  IF n <= 1 /\ gZeroFirst THEN 0 ELSE backoff_factor * 2 ^ (n - 1)

Retryable(s) == s = 0 \/ s \in status_forcelist

GetStart ==
  /\ gPc = "send"
  /\ gTotal = RetryTotal
  /\ gHist = <<>>
  /\ gWaits = <<>>
  /\ gResult = "none"
  /\ gZeroFirst \in BOOLEAN

\* a request meets a retryable outcome and retries are left: sleep, resend
GetRetries ==
  /\ gPc = "send"
  /\ \E s \in Outcomes :
       /\ Retryable(s)
       /\ gHist' = Append(gHist, s)
  /\ gTotal - 1 >= 0
  /\ gTotal' = gTotal - 1
  /\ gWaits' = Append(gWaits, Backoff(Len(gHist')))
  /\ UNCHANGED <<gPc, gResult, gZeroFirst, mainVars>>

\* a request meets a retryable outcome and the retries are used up: the GET
\* raises (RetryError for a status, ConnectionError otherwise)
GetExhausted ==
  /\ gPc = "send"
  /\ \E s \in Outcomes :
       /\ Retryable(s)
       /\ gHist' = Append(gHist, s)
       /\ gResult' = IF s = 0 THEN "ConnectionError" ELSE "RetryError"
  /\ gTotal - 1 < 0
  /\ gTotal' = gTotal - 1
  /\ gPc' = "done"
  /\ UNCHANGED <<gWaits, gZeroFirst, mainVars>>

\* a response outside the retried set ends the GET; raise_for_status turns
\* 404 into HTTPError
GetResponds ==
  /\ gPc = "send"
  /\ \E s \in Outcomes :
       /\ ~Retryable(s)
       /\ gHist' = Append(gHist, s)
       /\ gResult' = IF s = 200 THEN "ok" ELSE "HTTPError"
  /\ gPc' = "done"
  /\ UNCHANGED <<gTotal, gWaits, gZeroFirst, mainVars>>

NextGet == GetRetries \/ GetExhausted \/ GetResponds

InitGet == MainInit(<<>>) /\ GetStart

SpecGet == InitGet /\ [][NextGet]_vars


(***************************************************************************)
(* Properties.                                                             *)
(***************************************************************************)
AllRetryable == \A k \in 1..Len(gHist) : gHist[k] \in status_forcelist

StrictlyIncreasing(w) == \A k \in 1..(Len(w) - 1) : w[k] < w[k + 1]

\* C1 (as stated): when every response of a GET carries a status of the
\* retried set, at most 3 requests are sent in total and the waits between
\* consecutive attempts are strictly increasing.
C1_AtMostThreeRequests ==
  AllRetryable => Len(gHist) <= 3 /\ StrictlyIncreasing(gWaits)

\* C1 (amended): when every response of a GET carries a status of the retried
\* set, at most 4 requests are sent in total (the first attempt plus 3
\* retries), the GET fails with the fourth, and the back-off waits between
\* consecutive attempts are strictly increasing.
C1_AtMostFourRequests ==
  AllRetryable =>
    /\ Len(gHist) <= 4
    /\ StrictlyIncreasing(gWaits)
    /\ Len(gWaits) = (IF gPc = "done" THEN Len(gHist) - 1 ELSE Len(gHist))
    /\ gPc = "done" => Len(gHist) = 4 /\ gResult = "RetryError"

C1_Witness ==
  /\ gPc = "done" /\ AllRetryable
  /\ Len(gHist) = 4 /\ Len(gWaits) = 3
  /\ gResult = "RetryError"

\* C2: a download_file call whose derived path already holds a file returns
\* True, issues no network request and leaves every file as it was.
C2_SkipExisting ==
  [][ (Called /\ DlPath \in DOMAIN fs) =>
        /\ ev'.dl = "skip" /\ ev'.ret = "True"
        /\ ev'.req = "none" /\ lastReq' = lastReq
        /\ fs' = fs ]_vars

C2_Witness ==
  /\ ev.dl = "skip" /\ ev.ret = "True"
  /\ \E p \in DOMAIN fs : ~fs[p].complete

C4_NeverPropagates ==
  /\ ev.dl # "raise"
  /\ (ev.fin \in {"downloaded", "exception"} /\ DOMAIN links # {}) =>
       attempted = DOMAIN links

\* C5 (as stated): when an article is done, for every kind without a link a
\* warning was logged and download_file was not called.
C5_WarnsPerMissingKind ==
  ev.fin \in {"downloaded", "nolinks"} =>
    \A k \in KindSet \ DOMAIN links : warned /\ k \notin attempted

\* C5 (amended): download_file is never called for a kind without a link;
\* the warning is logged exactly when get_all_download_links returned no
\* link of any kind, and not when only some kinds are missing.
C5_NoCallForMissingKind ==
  /\ \A k \in KindSet \ DOMAIN links : k \notin attempted
  /\ ev.fin \in {"downloaded", "nolinks"} => (warned <=> DOMAIN links = {})
  /\ ev.fin = "downloaded" => attempted = DOMAIN links

C5_Witness ==
  /\ ev.fin = "downloaded"
  /\ DOMAIN links # {} /\ DOMAIN links # KindSet
  /\ attempted = DOMAIN links
  /\ ~warned


\* the cards of the page whose article page main requests
Linked(pg) ==
  {j \in 1..Len(Articles(pg)) :
     Articles(pg)[j].title /\ Articles(pg)[j].a /\ Articles(pg)[j].href # NoHref}

\* the links the site offers for card j (when its page parses)
Offered(pg, j) ==
  IF RaisesKeyError(ArticlePage(article_link(Articles(pg)[j])))
  THEN NoLinks
  ELSE ExtractLinks(article_link(Articles(pg)[j]),
                    ArticlePage(article_link(Articles(pg)[j])))

\* every download link of the site: the card, its sanitized title, the kind
\* and the URL (each URL is the link of one kind of one article)
SiteLinks ==
  UNION {{[card |-> c, title |-> TitleOf(c), kind |-> k,
           url |-> ExtractLinks(article_link(c), ArticlePage(article_link(c)))[k]]
          : k \in DOMAIN ExtractLinks(article_link(c),
                                      ArticlePage(article_link(c)))}
         : c \in {d \in Cards :
                    /\ d.title /\ d.a /\ d.href # NoHref
                    /\ ~RaisesKeyError(ArticlePage(article_link(d)))}}

\* what follows the last "." of the URL's last path segment, query removed;
\* "download" when that segment has no "."
UrlExt(u) ==
  LET seg == SplitFirst(SplitLast(u, "/"), "?")
  IN IF Positions(seg, ".") = {} THEN DefaultExt ELSE SplitLast(seg, ".")

\* <collection>/<sanitized title>/<prefix><sanitized title>.<ext>
PathFor(title, kind, ext) ==
  << <<collection_name, title>>,
     <<KindPrefix(kind)>> \o title \o <<".">> \o ext >>

\* C6 (as stated): the path of a file is determined by collection name,
\* sanitized title and kind prefix alone: two files in the same folder with
\* the same prefix are the same file, whatever URL they came from.
C6_PathIgnoresUrl ==
  \A p, q \in DOMAIN fs :
    (p[1] = q[1] /\ p[2][1] = q[2][1]) => p = q

\* C6 (amended): with the remote content unchanged, at most one file exists
\* per (article, kind), and every file lies at
\* <collection name>/<sanitized title>/<prefix><sanitized title>.<ext>, where
\* <ext> is the extension of the download URL's last path segment
\* ("download" when it has none): the path depends on the URL through that
\* extension only and on no other article.
C6_PathFromTitleKindExt ==
  \A p \in DOMAIN fs :
    /\ \A q \in DOMAIN fs : fs[q].url = fs[p].url => q = p
    /\ \E j \in Linked(page) : \E r \in SiteLinks :
         /\ r.card = Articles(page)[j]
         /\ r.url = fs[p].url
         /\ p = PathFor(r.title, r.kind, UrlExt(r.url))

\* two articles with one sanitized title, whose PDF files differ in the
\* extension only
C6_Witness ==
  \E p, q \in DOMAIN fs :
    /\ p # q
    /\ p[1] = q[1] /\ p[2][1] = "PDF_" /\ q[2][1] = "PDF_"
    /\ fs[p].url # fs[q].url

\* C7 (as stated): every article whose PDF download request succeeded in this
\* run (link found by the primary marker or by the fallback) has the file
\* PDF_<sanitized title>.pdf in its folder.
C7_AlwaysDotPdf ==
  \A j \in okPdf :
    PathFor(TitleOf(Articles(page)[j]), "pdf", <<"p", "d", "f">>)
      \in DOMAIN fs

\* C7 (amended): every article whose PDF download request succeeded in this
\* run has the complete file PDF_<sanitized title>.<ext> in its folder, where
\* <ext> is the extension of the PDF URL's last path segment with the query
\* removed ("download" when it has none); the file is
\* PDF_<sanitized title>.pdf when that segment ends in ".pdf".
C7_PdfNamedByUrlExt ==
  \A j \in okPdf :
    LET t == TitleOf(Articles(page)[j])
        u == Offered(page, j)["pdf"]
        seg == SplitFirst(SplitLast(u, "/"), "?")
    IN /\ PathFor(t, "pdf", UrlExt(u)) \in DOMAIN fs
       /\ fs[PathFor(t, "pdf", UrlExt(u))].complete
       /\ EndsWith(seg, DotPdf) =>
            PathFor(t, "pdf", <<"p", "d", "f">>) \in DOMAIN fs

\* a finished run that downloaded one PDF found by the primary marker and
\* one found by the fallback only
C7_Witness ==
  /\ ev.op = "LoopEnd"
  /\ \E j, k \in okPdf :
       /\ PdfTagIdx(ArticlePage(article_link(Articles(page)[j]))) # 0
       /\ PdfTagIdx(ArticlePage(article_link(Articles(page)[k]))) = 0


\* C8 (as stated): a completed run has requested the article page of every
\* card that has a title element with a nested <a>, once each and in page
\* order, and every run that entered the loop completes.
C8_EveryTitledCardFetched ==
  ev.op = "LoopEnd" =>
    /\ Len(fetched) =
         Cardinality({j \in 1..Len(Articles(page)) :
                        Articles(page)[j].title /\ Articles(page)[j].a})
    /\ \A a, b \in 1..Len(fetched) : a < b => fetched[a] < fetched[b]

\* C8 (amended): whatever fails, a completed run has requested the article
\* page of every card whose title element has a nested <a> carrying an href,
\* once each and in page order, and every run that entered the loop
\* completes.
C8_EveryLinkedCardFetched ==
  /\ [](ev.op = "LoopEnd" =>
          /\ {fetched[a] : a \in 1..Len(fetched)} = Linked(page)
          /\ \A a, b \in 1..Len(fetched) : a < b => fetched[a] < fetched[b])
  /\ (pc # "idle") ~> (pc = "idle" /\ ev.op = "LoopEnd")

\* a completed run over two linked cards in which every request failed or an
\* exception was caught
C8_Witness ==
  /\ ev.op = "LoopEnd"
  /\ Len(fetched) = 2
  /\ ~curClean
  /\ prevFin \in {"exception", "nolinks"}

\* C9 (as stated): when an article page is requested after an earlier one of
\* the same run, a pause of 8 to 15 units has been slept in between, however
\* the earlier article ended.
C9_PauseAfterEveryArticle ==
  [][ (ev'.req = "page" /\ fetched # <<>>) => slept.pause \in 8..15 ]_vars

\* C9 (amended): when an article page is requested after an earlier one of
\* the same run, a pause of 8 to 15 units has been slept in between if the
\* earlier article reached the end of the loop body (links found, no
\* exception reached main); if it ended with no download links or with a
\* caught exception, no pause has been slept.
C9_PauseAfterDownloadedArticle ==
  [][ (ev'.req = "page" /\ fetched # <<>>) =>
        /\ prevFin = "downloaded" => slept.pause \in 8..15
        /\ prevFin \in {"nolinks", "exception"} => slept.pause = 0
        /\ prevFin \in {"downloaded", "nolinks", "exception"} ]_vars

C9_Witness ==
  /\ ev.req = "page"
  /\ Len(fetched) = 2
  /\ slept.pause = 0
  /\ run = 1
  /\ \E p \in DOMAIN fs : fs[p].complete

\* C10 (as stated): when a request is issued inside a run, the delay of the
\* previous request has been slept: 2 to 4 units after an article-page
\* request, 3 to 6 after a file-download request, whether it succeeded or not.
C10_DelayAfterEveryRequest ==
  [][ ev'.req \in {"page", "file"} =>
        /\ lastReq.kind = "page" => slept.page \in 2..4
        /\ lastReq.kind = "file" => slept.file \in 3..6 ]_vars

\* C10 (amended): when a request is issued inside a run, the delay of the
\* previous request has been slept if that request completed: 2 to 4 units
\* after an article page that was fetched and parsed, 3 to 6 after a file
\* that was downloaded in full.  After a failed page request, a page whose
\* parsing raised, a failed download or one that broke off, no delay has been
\* slept.
C10_DelayAfterCompletedRequest ==
  [][ ev'.req \in {"page", "file"} =>
        /\ (lastReq.kind = "page" /\ lastReq.result = "ok") => slept.page \in 2..4
        /\ (lastReq.kind = "file" /\ lastReq.result = "ok") => slept.file \in 3..6
        /\ lastReq.result # "ok" => slept.page = 0 /\ slept.file = 0 ]_vars

C10_Witness ==
  /\ ev.req = "file" /\ ev.dl = "ok"
  /\ lastReq.kind = "file" /\ slept.file \in 3..6
  /\ attempted = {"pdf", "supp"}

=============================================================================
